---- MODULE Spec2Model ----
(***************************************************************************)
(* Ogre mesh XML tools: the OBJ exporter of MeshToObj.py (OgreXMLToOBJ)    *)
(* with its batch mode, the normal recalculation pass of                   *)
(* recalculate_normals.py and the batch loop of batch_ogre_to_gltf.py.     *)
(*                                                                         *)
(* An optional XML element or attribute is a sequence of length 0 (absent) *)
(* or the value itself wrapped / spelled as a non-empty sequence:          *)
(*   geometry     <<>> or <<block>>                                        *)
(*   vertexcount  <<>> or <<n>>                                            *)
(*   position     <<>> or <<x, y, z>>     normal <<>> or <<nx, ny, nz>>    *)
(*   texcoord     <<>> or <<u, v>>        faces  <<>> or <<face list>>     *)
(* Sequences are 1-based; the source's vertex index i is i + 1 here.       *)
(***************************************************************************)
EXTENDS Integers, Sequences, FiniteSets, TLC

VARIABLES
    pc,          \* position of the run: which step comes next
    root,        \* the elements of the mesh XML tree read so far
    vertices,    \* OgreXMLToOBJ.vertices
    normals,     \* OgreXMLToOBJ.normals
    uvs,         \* OgreXMLToOBJ.uvs
    submeshes,   \* OgreXMLToOBJ.submeshes
    obj,         \* the OBJ file written by write_obj
    tree,        \* recalculate_normals: the tree in memory
    last,        \* recalculate_normals: the locals of the last loop turn
    total,       \* recalculate_normals: total_vertices_processed
    written,     \* recalculate_normals: what tree.write put on disk
    create_mtl,  \* MeshToObj batch mode: not args.no_mtl
    xml_files,   \* MeshToObj batch mode: the XML files taken so far
    outputs,     \* MeshToObj batch mode: the files written for each of them
    errors,      \* MeshToObj batch mode: whether an error was printed for it
    mesh_files,  \* batch_ogre_to_gltf: the .mesh files taken so far
    attempts     \* batch_ogre_to_gltf: what was done for each of them

exportVars == <<vertices, normals, uvs, submeshes, obj>>

recalcVars == <<tree, last, total, written>>

driverVars == <<create_mtl, xml_files, outputs, errors, mesh_files, attempts>>

vars == <<pc, root, exportVars, recalcVars, driverVars>>

(***************************************************************************)
(* Bounds of the explored inputs                                           *)
(***************************************************************************)
MaxFrags == 2        \* vertexbuffer fragments of one geometry block
MaxFragVerts == 2    \* vertex records of one fragment
MaxBlockVerts == 2   \* vertices of a block of a whole mesh
MaxSubmeshes == 2    \* submeshes of a mesh
MaxFaces == 1        \* faces of a submesh of a whole mesh
MaxRVerts == 4       \* vertices of a block whose normals are recalculated
MaxRSubmeshes == 2   \* submeshes of a tree whose normals are recalculated
MaxRFaces == 2       \* faces of such a submesh
MaxRIndex == 1       \* largest first index of such a face
MaxNegIndex == 2     \* the smallest first index of such a face, negated
MaxFiles == 3        \* XML files of one batch
MaxMeshFiles == 3    \* .mesh files of one directory walk
Scale == 100         \* steps per unit of a written normal component

Min(a, b) == IF a < b THEN a ELSE b

(***************************************************************************)
(* Input elements                                                          *)
(***************************************************************************)
NoElem == <<>>

\* A vertex record of fragment f at 0-based index k, which carries all three
\* sub-elements or none; the values name their origin, so that values
\* supplied by different fragments differ.
VertexRecord(f, k, carried) ==
    [position |-> IF carried THEN <<f, k, 0>> ELSE NoElem,
     normal   |-> IF carried THEN <<f, 0, k>> ELSE NoElem,
     texcoord |-> IF carried THEN <<f, k>> ELSE NoElem]

\* The records of a fragment: at most MaxFragVerts, which all carry their
\* sub-elements, or all but the first.
CarriedLists ==
    {[k \in 1..n |-> TRUE] : n \in 0..MaxFragVerts} \cup
    {[k \in 1..n |-> k > 1] : n \in 1..MaxFragVerts}

\* What a fragment declares: everything, positions and normals, or one
\* attribute only.
Declarations ==
    {<<TRUE, TRUE, 1>>, <<TRUE, TRUE, 0>>, <<TRUE, FALSE, 0>>,
     <<FALSE, TRUE, 0>>, <<FALSE, FALSE, 1>>}

FragmentShapes == Declarations \X CarriedLists

\* The vertexbuffer element number f of a block, of the given shape.
Fragment(f, shape) ==
    [positions |-> shape[1][1], normals |-> shape[1][2],
     texture_coords |-> shape[1][3],
     vertex |-> [k \in 1..Len(shape[2]) |->
                    VertexRecord(f, k - 1, shape[2][k])]]

\* A geometry block made of several fragments, an input of _parse_geometry.
Geometry(vertexcount, shapes) ==
    [vertexcount |-> vertexcount,
     vertexbuffer |-> [f \in 1..Len(shapes) |-> Fragment(f, shapes[f])]]

VertexCounts == {NoElem} \cup {<<n>> : n \in 0..MaxFragVerts}

\* The geometry blocks of a whole mesh: one fragment that declares positions
\* and, per block, normals and texture coordinates or not; tag names the
\* block (0 the shared block, j the block of the j-th submesh).
MeshVertex(tag, k) ==
    [position |-> <<tag + 1, k, 0>>, normal |-> <<tag + 1, 0, k>>,
     texcoord |-> <<tag + 1, k>>]

MeshGeometry(tag, n, hasN, hasT) ==
    [vertexcount |-> <<n>>,
     vertexbuffer |->
        <<[positions |-> TRUE, normals |-> hasN,
           texture_coords |-> IF hasT THEN 1 ELSE 0,
           vertex |-> [k \in 1..n |-> MeshVertex(tag, k - 1)]]>>]

MeshGeometries(tag) ==
    {[vertexcount |-> NoElem, vertexbuffer |-> <<>>]} \cup
    {MeshGeometry(tag, n, hasN, hasT) :
        n \in 1..MaxBlockVerts, hasN \in BOOLEAN, hasT \in BOOLEAN}

\* The faces of the submesh at position idx, if it has any: MaxFaces
\* triangles over consecutive source indices from idx on.
FaceList(idx) ==
    [k \in 1..MaxFaces |-> <<idx + k - 1, idx + k, idx + k + 1>>]

\* The submesh elements at position idx of <submeshes>.  One that uses the
\* shared vertices has no geometry of its own, or a stray one; one that does
\* not has faces and any geometry or none, or a full block and no faces.
Submeshes(idx) ==
    [usesharedvertices : {TRUE},
     geometry : {NoElem, <<MeshGeometry(idx + 1, 1, TRUE, TRUE)>>},
     faces : {NoElem, <<FaceList(idx)>>}]
    \cup
    [usesharedvertices : {FALSE},
     geometry : {NoElem} \cup {<<g>> : g \in MeshGeometries(idx + 1)},
     faces : {<<FaceList(idx)>>}]
    \cup
    [usesharedvertices : {FALSE},
     geometry : {<<MeshGeometry(idx + 1, MaxBlockVerts, TRUE, TRUE)>>},
     faces : {NoElem}]

(***************************************************************************)
(* OgreXMLToOBJ._parse_geometry                                            *)
(***************************************************************************)
\* The vertex count is counted in the first fragment whenever there is one.
VertexCountFromRecords(geom) ==
    IF geom.vertexbuffer # <<>> THEN Len(geom.vertexbuffer[1].vertex)
    ELSE IF geom.vertexcount # NoElem THEN geom.vertexcount[1]
    ELSE 0

\* The vertex count of a block; a block without count and without fragment
\* makes _parse_geometry return before it touches anything.
VertexCount(geom) ==
    IF geom.vertexcount # NoElem THEN geom.vertexcount[1]
    ELSE IF geom.vertexbuffer # <<>> THEN Len(geom.vertexbuffer[1].vertex)
    ELSE 0

\* One pass of the loop over the fragments: every record below the vertex
\* count overwrites the attributes its fragment declares and it carries.
MergeFirstWins(acc, vb, n) ==
    LET has(i) == i <= Len(vb.vertex)
    IN [verts |-> [i \in 1..n |->
            IF vb.positions /\ has(i) /\ vb.vertex[i].position # NoElem
               /\ acc.verts[i] = NoElem
            THEN vb.vertex[i].position ELSE acc.verts[i]],
        normals |-> [i \in 1..n |->
            IF vb.normals /\ has(i) /\ vb.vertex[i].normal # NoElem
               /\ acc.normals[i] = NoElem
            THEN vb.vertex[i].normal ELSE acc.normals[i]],
        uvs |-> [i \in 1..n |->
            IF vb.texture_coords > 0 /\ has(i)
               /\ vb.vertex[i].texcoord # NoElem /\ acc.uvs[i] = NoElem
            THEN <<vb.vertex[i].texcoord[1], 1 - vb.vertex[i].texcoord[2]>>
            ELSE acc.uvs[i]],
        any_normals |-> acc.any_normals \/
            (vb.normals /\ \E i \in 1..Min(n, Len(vb.vertex)) :
                              vb.vertex[i].normal # NoElem),
        any_uvs |-> acc.any_uvs \/
            (vb.texture_coords > 0 /\ \E i \in 1..Min(n, Len(vb.vertex)) :
                              vb.vertex[i].texcoord # NoElem)]

MergeVertexBuffer(acc, vb, n) ==
    LET has(i) == i <= Len(vb.vertex)
    IN [verts |-> [i \in 1..n |->
            IF vb.positions /\ has(i) /\ vb.vertex[i].position # NoElem
            THEN vb.vertex[i].position ELSE acc.verts[i]],
        normals |-> [i \in 1..n |->
            IF vb.normals /\ has(i) /\ vb.vertex[i].normal # NoElem
            THEN vb.vertex[i].normal ELSE acc.normals[i]],
        uvs |-> [i \in 1..n |->
            IF vb.texture_coords > 0 /\ has(i)
               /\ vb.vertex[i].texcoord # NoElem
            THEN <<vb.vertex[i].texcoord[1], 1 - vb.vertex[i].texcoord[2]>>
            ELSE acc.uvs[i]],
        any_normals |-> acc.any_normals \/
            (vb.normals /\ \E i \in 1..Min(n, Len(vb.vertex)) :
                              vb.vertex[i].normal # NoElem),
        any_uvs |-> acc.any_uvs \/
            (vb.texture_coords > 0 /\ \E i \in 1..Min(n, Len(vb.vertex)) :
                              vb.vertex[i].texcoord # NoElem)]

RECURSIVE MergeBuffers(_, _, _)
MergeBuffers(acc, vbs, n) ==
    IF vbs = <<>> THEN acc
    ELSE MergeBuffers(MergeVertexBuffer(acc, Head(vbs), n), Tail(vbs), n)

\* The containers before the first fragment: vertex_count times None.
EmptyLocal(n) ==
    [verts |-> [i \in 1..n |-> NoElem], normals |-> [i \in 1..n |-> NoElem],
     uvs |-> [i \in 1..n |-> NoElem], any_normals |-> FALSE,
     any_uvs |-> FALSE]

FillVerts(local_verts) ==
    [i \in 1..Len(local_verts) |->
        IF local_verts[i] = NoElem THEN <<0, 0, 0>> ELSE local_verts[i]]

\* Keeps the normals the fragments supplied and drops the unset ones.
FillNormalsSparse(local_normals, any_normals) ==
    SelectSeq(local_normals, LAMBDA nrm : nrm # NoElem)

FillNormals(local_normals, any_normals) ==
    IF any_normals
    THEN [i \in 1..Len(local_normals) |->
            IF local_normals[i] = NoElem THEN <<0, 1, 0>>
            ELSE local_normals[i]]
    ELSE <<>>

FillUvs(local_uvs, any_uvs) ==
    IF any_uvs
    THEN [i \in 1..Len(local_uvs) |->
            IF local_uvs[i] = NoElem THEN <<0, 0>> ELSE local_uvs[i]]
    ELSE <<>>

\* The sequences one block contributes.
MergedBlock(geom) ==
    LET n == VertexCount(geom)
        m == MergeBuffers(EmptyLocal(n), geom.vertexbuffer, n)
    IN [verts |-> FillVerts(m.verts),
        normals |-> FillNormals(m.normals, m.any_normals),
        uvs |-> FillUvs(m.uvs, m.any_uvs)]

\* The normals and uvs of the block are put in front of the global ones.
ParseGeometryInFront(geom, V, N, U) ==
    LET b == MergedBlock(geom)
    IN [vertices |-> V \o b.verts, normals |-> b.normals \o N,
        uvs |-> b.uvs \o U]

\* _parse_geometry: the global sequences after the block is appended.
ParseGeometry(geom, V, N, U) ==
    LET b == MergedBlock(geom)
    IN [vertices |-> V \o b.verts, normals |-> N \o b.normals,
        uvs |-> U \o b.uvs]

(***************************************************************************)
(* OgreXMLToOBJ._parse_submesh                                             *)
(***************************************************************************)
\* The offset of a shared submesh taken from the global sequence.
VertexOffsetGlobal(uses_shared, vertex_total) == vertex_total

\* The offset of a local submesh left at the start of the global sequence.
VertexOffsetZero(uses_shared, vertex_total) == 0

\* vertex_offset: the length of the global vertex sequence on entry, or 0
\* for a submesh that uses the shared vertices.
VertexOffset(uses_shared, vertex_total) ==
    IF uses_shared THEN 0 ELSE vertex_total

ResolveFace(face, vertex_offset) ==
    <<face[1] + vertex_offset + 1, face[2] + vertex_offset + 1,
      face[3] + vertex_offset + 1>>

LocalFaces(submesh_elem, vertex_offset) ==
    IF submesh_elem.faces = NoElem THEN <<>>
    ELSE [f \in 1..Len(submesh_elem.faces[1]) |->
            ResolveFace(submesh_elem.faces[1][f], vertex_offset)]

\* Parses the stray geometry of a shared submesh as well.
ParsesLocalGeometryAlways(submesh_elem) == submesh_elem.geometry # NoElem

ParsesLocalGeometry(submesh_elem) ==
    ~submesh_elem.usesharedvertices /\ submesh_elem.geometry # NoElem

(***************************************************************************)
(* OgreXMLToOBJ.write_obj                                                  *)
(***************************************************************************)
\* Normals are taken as available as soon as there is one.
HaveNormalsAny(V, N) == Len(N) > 0

HaveNormals(V, N) == Len(N) = Len(V) /\ Len(N) > 0

HaveUvs(V, U) == Len(U) = Len(V) /\ Len(U) > 0

\* A face line whose corner refers to a normal when that normal exists.
FaceLinePerCorner(face, have_uvs, have_normals) ==
    [c \in 1..3 |->
        [v  |-> face[c],
         vt |-> IF have_uvs THEN <<face[c]>> ELSE NoElem,
         vn |-> IF face[c] <= Len(normals) THEN <<face[c]>> ELSE NoElem]]

\* One "f" line: per corner the vertex index and, when present, the uv and
\* the normal index, which repeat the vertex index.
FaceLine(face, have_uvs, have_normals) ==
    [c \in 1..3 |->
        [v  |-> face[c],
         vt |-> IF have_uvs THEN <<face[c]>> ELSE NoElem,
         vn |-> IF have_normals THEN <<face[c]>> ELSE NoElem]]

\* The OBJ file: the v, vt and vn lines and one group of f lines per submesh.
\* Coordinates of the explored inputs are whole numbers, which the six
\* decimals of the v, vt and vn lines keep.
ObjFile(V, N, U, S) ==
    LET have_uvs == HaveUvs(V, U)
        have_normals == HaveNormals(V, N)
    IN [v |-> V, vt |-> U, vn |-> N,
        have_uvs |-> have_uvs, have_normals |-> have_normals,
        groups |-> [s \in 1..Len(S) |->
            [part |-> s - 1, material |-> S[s].material,
             f |-> [k \in 1..Len(S[s].faces) |->
                      FaceLine(S[s].faces[k], have_uvs, have_normals)]]]]

\* The state of the other program while one program runs.
NoPass == [processed |-> FALSE, vertex_normals |-> <<>>,
           vertex_face_count |-> <<>>, face_count |-> 0,
           updated_normals |-> 0]

NoTree == [sharedgeometry |-> <<>>, submeshes |-> <<>>]

RecalcIdle ==
    tree = NoTree /\ last = NoPass /\ total = 0 /\ written = <<>>

DriversIdle ==
    /\ create_mtl = TRUE /\ xml_files = <<>> /\ outputs = <<>>
    /\ errors = <<>> /\ mesh_files = <<>> /\ attempts = <<>>

NoFile == [v |-> <<>>, vt |-> <<>>, vn |-> <<>>, have_uvs |-> FALSE,
           have_normals |-> FALSE, groups |-> <<>>]

(***************************************************************************)
(* One conversion: OgreXMLToOBJ.__init__, parse_mesh_xml, write_obj        *)
(***************************************************************************)
\* __init__, and the tree whose shared block is one of the mesh blocks.
Init ==
    /\ pc = "sharedgeometry"
    /\ root \in [sharedgeometry : {NoElem} \cup {<<g>> : g \in MeshGeometries(0)},
                 submeshes : {<<>>}]
    /\ vertices = <<>>
    /\ normals = <<>>
    /\ uvs = <<>>
    /\ submeshes = <<>>
    /\ obj = NoFile
    /\ RecalcIdle
    /\ DriversIdle

\* __init__, and a tree that holds one shared block of several fragments.
InitGeom ==
    /\ pc = "sharedgeometry"
    /\ \E m \in 0..MaxFrags :
          \E shapes \in [1..m -> FragmentShapes] :
             \E vertexcount \in VertexCounts :
                root = [sharedgeometry |-> <<Geometry(vertexcount, shapes)>>,
                        submeshes |-> <<>>]
    /\ vertices = <<>>
    /\ normals = <<>>
    /\ uvs = <<>>
    /\ submeshes = <<>>
    /\ obj = NoFile
    /\ RecalcIdle
    /\ DriversIdle

\* parse_mesh_xml, first half: the shared block, if there is one.
ParseSharedGeometry ==
    /\ pc = "sharedgeometry"
    /\ LET g == IF root.sharedgeometry = NoElem
                THEN [vertices |-> vertices, normals |-> normals, uvs |-> uvs]
                ELSE ParseGeometry(root.sharedgeometry[1],
                                   vertices, normals, uvs)
       IN /\ vertices' = g.vertices
          /\ normals' = g.normals
          /\ uvs' = g.uvs
    /\ pc' = "submeshes"
    /\ UNCHANGED <<root, submeshes, obj, recalcVars, driverVars>>

\* parse_mesh_xml, one turn of the loop: _parse_submesh on the next submesh
\* element of the tree.
ParseSubmesh ==
    /\ pc = "submeshes"
    /\ Len(submeshes) < MaxSubmeshes
    /\ \E submesh_elem \in Submeshes(Len(submeshes)) :
         LET submesh_idx == Len(submeshes)
             vertex_offset == VertexOffset(submesh_elem.usesharedvertices,
                                           Len(vertices))
             g == IF ParsesLocalGeometry(submesh_elem)
                  THEN ParseGeometry(submesh_elem.geometry[1],
                                     vertices, normals, uvs)
                  ELSE [vertices |-> vertices, normals |-> normals,
                        uvs |-> uvs]
         IN /\ root' = [root EXCEPT !.submeshes = Append(@, submesh_elem)]
            /\ vertices' = g.vertices
            /\ normals' = g.normals
            /\ uvs' = g.uvs
            /\ submeshes' = Append(submeshes,
                  [material |-> submesh_idx,
                   faces |-> LocalFaces(submesh_elem, vertex_offset),
                   index |-> submesh_idx])
    /\ UNCHANGED <<pc, obj, recalcVars, driverVars>>

\* convert, after parse_mesh_xml has read the last submesh: write_obj.
WriteObj ==
    /\ pc = "submeshes"
    /\ obj' = ObjFile(vertices, normals, uvs, submeshes)
    /\ pc' = "done"
    /\ UNCHANGED <<root, vertices, normals, uvs, submeshes, recalcVars, driverVars>>

Next == ParseSharedGeometry \/ ParseSubmesh \/ WriteObj

Spec == Init /\ [][Next]_vars

NextGeom == ParseSharedGeometry

SpecGeom == InitGeom /\ [][NextGeom]_vars

(***************************************************************************)
(* recalculate_normals.py: Vector3                                         *)
(*                                                                         *)
(* Positions are whole numbers.  A normal component is a whole number of   *)
(* steps of 1/Scale, cut towards zero, as the written attribute is a       *)
(* decimal fraction of fixed length.                                       *)
(***************************************************************************)
Abs(x) == IF x < 0 THEN -x ELSE x

Sign(x) == IF x < 0 THEN -1 ELSE IF x > 0 THEN 1 ELSE 0

\* Division cut towards zero.
TDiv(a, b) == Sign(a) * (Abs(a) \div b)

\* The largest r in lo..hi with r * r <= q, for lo * lo <= q.
RECURSIVE ISqrtIn(_, _, _)
ISqrtIn(q, lo, hi) ==
    IF lo = hi THEN lo
    ELSE LET mid == (lo + hi + 1) \div 2
         IN IF mid * mid <= q THEN ISqrtIn(q, mid, hi)
            ELSE ISqrtIn(q, lo, mid - 1)

VAdd(a, b) == <<a[1] + b[1], a[2] + b[2], a[3] + b[3]>>

VSub(a, b) == <<a[1] - b[1], a[2] - b[2], a[3] - b[3]>>

Cross(a, b) ==
    <<a[2] * b[3] - a[3] * b[2],
      a[3] * b[1] - a[1] * b[3],
      a[1] * b[2] - a[2] * b[1]>>

Dot(a, b) == a[1] * b[1] + a[2] * b[2] + a[3] * b[3]

\* The fallback for a vector without length is the vector itself.
NormalizeZeroFallback(v) ==
    LET len2 == Dot(v, v)
    IN IF len2 > 0
       THEN [c \in 1..3 |->
               Sign(v[c]) *
               ISqrtIn(((Scale * Abs(v[c])) * (Scale * Abs(v[c]))) \div len2,
                       0, Scale)]
       ELSE v

\* Vector3.normalize: v / |v| in steps of 1/Scale, or (0, 0, 1) for a vector
\* no longer than the threshold, which lies below every non-zero length of
\* the vectors met here.
Normalize(v) ==
    LET len2 == Dot(v, v)
    IN IF len2 > 0
       THEN [c \in 1..3 |->
               Sign(v[c]) *
               ISqrtIn(((Scale * Abs(v[c])) * (Scale * Abs(v[c]))) \div len2,
                       0, Scale)]
       ELSE <<0, 0, Scale>>

calculate_face_normal(v1, v2, v3) ==
    Normalize(Cross(VSub(v2, v1), VSub(v3, v1)))

(***************************************************************************)
(* recalculate_normals: the input trees                                    *)
(***************************************************************************)
\* Vertex k of a block: the origin, the three unit points, then points on
\* the diagonal; its normal element, if it has one, holds (1, 0, 0).
Corner(k) ==
    IF k = 0 THEN <<0, 0, 0>>
    ELSE IF k <= 3 THEN [c \in 1..3 |-> IF c = k THEN 1 ELSE 0]
    ELSE <<k - 3, k - 3, k - 3>>

RVertex(k, elems) ==
    [position |-> Corner(k),
     normal |-> IF elems THEN <<Scale, 0, 0>> ELSE NoElem,
     texcoord |-> <<k, 0>>]

\* A block of n vertices in one fragment, which declares normals or not and
\* whose vertices have normal elements or not.
RGeometry(n, declared, elems) ==
    [vertexcount |-> <<n>>,
     vertexbuffer |->
        <<[positions |-> TRUE, normals |-> declared, texture_coords |-> 1,
           vertex |-> [k \in 1..n |-> RVertex(k - 1, elems)]]>>]

\* A block of n vertices in two vertex buffers: the first holds the
\* positions, the second declares and holds the normals.
RSplitGeometry(n) ==
    [vertexcount |-> <<n>>,
     vertexbuffer |->
        <<[positions |-> TRUE, normals |-> FALSE, texture_coords |-> 0,
           vertex |-> [k \in 1..n |->
              [position |-> Corner(k - 1), normal |-> NoElem,
               texcoord |-> NoElem]]],
          [positions |-> FALSE, normals |-> TRUE, texture_coords |-> 0,
           vertex |-> [k \in 1..n |->
              [position |-> NoElem, normal |-> <<Scale, 0, 0>>,
               texcoord |-> NoElem]]]>>]

\* A block of n vertices of which the first three lie on one line.
RLineGeometry(n) ==
    [vertexcount |-> <<n>>,
     vertexbuffer |->
        <<[positions |-> TRUE, normals |-> TRUE, texture_coords |-> 1,
           vertex |-> [k \in 1..n |->
              [position |-> IF k <= 3 THEN <<k - 1, 0, 0>>
                            ELSE <<0, k - 3, 0>>,
               normal |-> <<Scale, 0, 0>>, texcoord |-> <<k - 1, 0>>]]]>>]

\* The shared blocks: none of the elements below, a geometry without vertex
\* buffer, blocks of 1..MaxRVerts vertices that declare normals and have
\* normal elements, blocks of MaxRVerts vertices without normal elements
\* that declare normals or not, a block in two vertex buffers, and a block
\* with three vertices on one line.
RGeometries ==
    {[vertexcount |-> <<0>>, vertexbuffer |-> <<>>]} \cup
    {RGeometry(n, TRUE, TRUE) : n \in 1..MaxRVerts} \cup
    {RGeometry(MaxRVerts, TRUE, FALSE), RGeometry(MaxRVerts, FALSE, FALSE),
     RSplitGeometry(MaxRVerts), RLineGeometry(MaxRVerts)}

\* Faces over three consecutive indices, of which the first may be negative;
\* a face list is a run of at most MaxRFaces such faces.
RFaceStarts == (0 - MaxNegIndex)..MaxRIndex

FaceRun(a, n) == [k \in 1..n |-> <<a + k - 1, a + k, a + k + 1>>]

RFaceLists ==
    UNION {{FaceRun(a, n) : n \in 0..Min(MaxRFaces, MaxRIndex + 1 - a)} :
           a \in RFaceStarts}

\* A submesh uses the shared vertices, or has a block of its own, or has
\* neither and then any faces it has are never read.
RSubmeshes ==
    [usesharedvertices : {TRUE}, geometry : {NoElem},
     faces : {NoElem} \cup {<<l>> : l \in RFaceLists}]
    \cup
    [usesharedvertices : {FALSE},
     geometry : {<<RGeometry(MaxRVerts, TRUE, TRUE)>>},
     faces : {NoElem, <<FaceRun(0, MaxRFaces)>>}]
    \cup
    [usesharedvertices : {FALSE}, geometry : {NoElem},
     faces : {<<FaceRun(0, MaxRFaces)>>}]

(***************************************************************************)
(* recalculate_normals: one turn of the loop over the submeshes            *)
(***************************************************************************)
\* The geometry element a submesh resolves to, if any.
ResolveGeometry(t, j) ==
    IF t.submeshes[j].usesharedvertices THEN t.sharedgeometry
    ELSE t.submeshes[j].geometry

\* The turn goes on when any vertex buffer of the block declares normals.
SkipsAnyBuffer(t, j) ==
    LET g == ResolveGeometry(t, j)
    IN \/ g = NoElem
       \/ g[1].vertexbuffer = <<>>
       \/ ~\E f \in 1..Len(g[1].vertexbuffer) : g[1].vertexbuffer[f].normals
       \/ Len(g[1].vertexbuffer[1].vertex) = 0
       \/ t.submeshes[j].faces = NoElem

\* The turn ends early: no geometry, no vertex buffer, no normals declared in
\* the first vertex buffer, no vertex, or no faces element.
Skips(t, j) ==
    LET g == ResolveGeometry(t, j)
    IN \/ g = NoElem
       \/ g[1].vertexbuffer = <<>>
       \/ ~g[1].vertexbuffer[1].normals
       \/ Len(g[1].vertexbuffer[1].vertex) = 0
       \/ t.submeshes[j].faces = NoElem

Positions(vertex_buffer) ==
    [i \in 1..Len(vertex_buffer.vertex) |->
        IF vertex_buffer.vertex[i].position = NoElem THEN <<0, 0, 0>>
        ELSE vertex_buffer.vertex[i].position]

\* The index check that rejects negative indices as well.
IndicesValidBothEnds(face, vertex_count) ==
    \A c \in 1..3 : face[c] >= 0 /\ face[c] < vertex_count

\* "Validate indices": all three are below the vertex count.
IndicesValid(face, vertex_count) ==
    \A c \in 1..3 : face[c] < vertex_count

\* positions[idx] of a list of vertex_count items: a negative index counts
\* from the end, and one below -vertex_count raises IndexError.
Raises(face, vertex_count) == \E c \in 1..3 : face[c] < 0 - vertex_count

ListIndex(idx, vertex_count) ==
    IF idx < 0 THEN idx + vertex_count + 1 ELSE idx + 1

\* The accumulation of one face that passed the index check.
AddFace(acc, face, positions) ==
    LET n == Len(positions)
        i1 == ListIndex(face[1], n)
        i2 == ListIndex(face[2], n)
        i3 == ListIndex(face[3], n)
        face_normal == calculate_face_normal(positions[i1], positions[i2],
                                             positions[i3])
        \* the three corners in turn; an index may repeat
        add(vn, i) == [vn EXCEPT ![i] = VAdd(@, face_normal)]
        inc(fc, i) == [fc EXCEPT ![i] = @ + 1]
    IN [acc EXCEPT
          !.vertex_normals = add(add(add(@, i1), i2), i3),
          !.vertex_face_count = inc(inc(inc(@, i1), i2), i3),
          !.face_count = @ + 1]

\* The loop over the faces; raised is set when a face raises IndexError,
\* which ends the loop and the pass.
RECURSIVE Accumulate(_, _, _)
Accumulate(acc, faces, positions) ==
    IF faces = <<>> THEN acc
    ELSE LET face == Head(faces)
             n == Len(positions)
         IN IF ~IndicesValid(face, n)
            THEN Accumulate(acc, Tail(faces), positions)
            ELSE IF Raises(face, n) THEN [acc EXCEPT !.raised = TRUE]
            ELSE Accumulate(AddFace(acc, face, positions), Tail(faces),
                            positions)

\* The normal written for a vertex that faces touch.
FinalNormal(sum, count) ==
    Normalize([c \in 1..3 |-> TDiv(sum[c], count)])

\* The default normal is written for an untouched vertex without a normal
\* element as well.
UpdateVertexCreating(vertex, sum, count) ==
    IF count > 0 THEN [vertex EXCEPT !.normal = FinalNormal(sum, count)]
    ELSE [vertex EXCEPT !.normal = <<0, Scale, 0>>]

\* The new values are set on the position element of the vertex.
UpdateVertexPosition(vertex, sum, count) ==
    IF count > 0 THEN [vertex EXCEPT !.position = FinalNormal(sum, count)]
    ELSE IF vertex.normal # NoElem
         THEN [vertex EXCEPT !.position = <<0, Scale, 0>>]
    ELSE vertex

\* "Normalize vertex normals and update XML", for one vertex.
UpdateVertex(vertex, sum, count) ==
    IF count > 0 THEN [vertex EXCEPT !.normal = FinalNormal(sum, count)]
    ELSE IF vertex.normal # NoElem
         THEN [vertex EXCEPT !.normal = <<0, Scale, 0>>]
    ELSE vertex

\* The tree and the locals at the end of a turn whose accumulation ended
\* with acc.
TurnResult(t, j, acc) ==
    LET g == ResolveGeometry(t, j)[1]
        vb == g.vertexbuffer[1]
        n == Len(vb.vertex)
        new_vertex == [i \in 1..n |->
                          UpdateVertex(vb.vertex[i], acc.vertex_normals[i],
                                       acc.vertex_face_count[i])]
        new_g == [g EXCEPT !.vertexbuffer[1].vertex = new_vertex]
    IN [raised |-> acc.raised,
        locals |-> [processed |-> TRUE,
                    vertex_normals |-> acc.vertex_normals,
                    vertex_face_count |-> acc.vertex_face_count,
                    face_count |-> acc.face_count,
                    updated_normals |->
                       Cardinality({i \in 1..n : acc.vertex_face_count[i] > 0})],
        tree |-> IF t.submeshes[j].usesharedvertices
                 THEN [t EXCEPT !.sharedgeometry = <<new_g>>]
                 ELSE [t EXCEPT !.submeshes[j].geometry = <<new_g>>]]

\* One full turn for submesh j of tree t that is not skipped: the locals at
\* its end and the tree with the new normals.
ProcessSubmesh(t, j) ==
    LET positions == Positions(ResolveGeometry(t, j)[1].vertexbuffer[1])
        n == Len(positions)
    IN TurnResult(t, j,
          CHOOSE acc \in {Accumulate(
                  [vertex_normals |-> [i \in 1..n |-> <<0, 0, 0>>],
                   vertex_face_count |-> [i \in 1..n |-> 0],
                   face_count |-> 0, raised |-> FALSE],
                  t.submeshes[j].faces[1], positions)} : TRUE)

(***************************************************************************)
(* recalculate_normals                                                     *)
(***************************************************************************)
ExportIdle ==
    /\ vertices = <<>> /\ normals = <<>> /\ uvs = <<>>
    /\ submeshes = <<>> /\ obj = NoFile

\* ET.parse of a file whose shared geometry is one of the blocks above.
InitRecalc ==
    /\ pc = "recalc"
    /\ root \in [sharedgeometry : {NoElem} \cup {<<g>> : g \in RGeometries},
                 submeshes : {<<>>}]
    /\ tree = root
    /\ last = NoPass
    /\ total = 0
    /\ written = <<>>
    /\ ExportIdle
    /\ DriversIdle

\* One turn of the loop, on the next submesh element of the tree; an
\* IndexError leaves the loop for the handler that returns False.
RecalcSubmesh ==
    /\ pc = "recalc"
    /\ Len(root.submeshes) < MaxRSubmeshes
    /\ \E submesh \in RSubmeshes :
         LET j == Len(root.submeshes) + 1
             t == [tree EXCEPT !.submeshes = Append(@, submesh)]
         IN /\ root' = [root EXCEPT !.submeshes = Append(@, submesh)]
            /\ IF Skips(t, j)
               THEN /\ tree' = t
                    /\ last' = NoPass
                    /\ UNCHANGED <<pc, total>>
               ELSE \E r \in {ProcessSubmesh(t, j)} :
                       IF r.raised
                       THEN /\ pc' = "failed"
                            /\ tree' = t
                            /\ last' = NoPass
                            /\ UNCHANGED total
                       ELSE /\ tree' = r.tree
                            /\ last' = r.locals
                            /\ total' = total + r.locals.updated_normals
                            /\ UNCHANGED pc
    /\ UNCHANGED <<written, exportVars, driverVars>>

\* After the last submesh: tree.write, and the pass returns True.
SaveTree ==
    /\ pc = "recalc"
    /\ written' = <<tree>>
    /\ pc' = "saved"
    /\ UNCHANGED <<root, tree, last, total, exportVars, driverVars>>

NextRecalc == RecalcSubmesh \/ SaveTree

SpecRecalc == InitRecalc /\ [][NextRecalc]_vars

(***************************************************************************)
(* What the tree read so far says, for the properties below                *)
(***************************************************************************)
Max(S) == CHOOSE x \in S : \A y \in S : y <= x

\* Submesh element j brings a block of its own into the mesh.
HasLocalBlock(j) ==
    ~root.submeshes[j].usesharedvertices /\ root.submeshes[j].geometry # NoElem

\* The geometry blocks of the mesh in document order.
SharedBlocks ==
    IF root.sharedgeometry = NoElem THEN <<>> ELSE <<root.sharedgeometry[1]>>

RECURSIVE LocalBlocks(_)
LocalBlocks(j) ==
    IF j = 0 THEN <<>>
    ELSE LocalBlocks(j - 1) \o
         (IF HasLocalBlock(j) THEN <<root.submeshes[j].geometry[1]>> ELSE <<>>)

\* The blocks in front of the block of submesh element j.
BlocksBefore(j) == SharedBlocks \o LocalBlocks(j - 1)

MeshBlocks == BlocksBefore(Len(root.submeshes) + 1)

\* The number of vertex records of a block of the mesh.
BlockSize(geom) ==
    IF geom.vertexbuffer = <<>> THEN 0 ELSE Len(geom.vertexbuffer[1].vertex)

RECURSIVE SumSizes(_)
SumSizes(blocks) ==
    IF blocks = <<>> THEN 0 ELSE BlockSize(Head(blocks)) + SumSizes(Tail(blocks))

\* The blocks of the mesh whose fragment declares normals, resp. uvs, and
\* that have a vertex record to carry them.
WithNormals(blocks) ==
    SelectSeq(blocks, LAMBDA g : BlockSize(g) > 0 /\ g.vertexbuffer[1].normals)

WithUvs(blocks) ==
    SelectSeq(blocks,
              LAMBDA g : BlockSize(g) > 0 /\ g.vertexbuffer[1].texture_coords > 0)

\* The face list of submesh element j with every index moved by offset + 1.
ShiftedFaces(j, offset) ==
    IF root.submeshes[j].faces = NoElem THEN <<>>
    ELSE [f \in 1..Len(root.submeshes[j].faces[1]) |->
            [c \in 1..3 |-> root.submeshes[j].faces[1][f][c] + offset + 1]]

Parsed == pc # "sharedgeometry"

\* C1: a submesh with a block of its own has its face indices moved by the
\* number of vertices of all blocks in front of its block, plus one, and the
\* global vertex sequence is as long as all blocks merged so far together.
C1_LocalOffset ==
    Parsed =>
        /\ \A j \in 1..Len(submeshes) :
              HasLocalBlock(j) =>
                 submeshes[j].faces = ShiftedFaces(j, SumSizes(BlocksBefore(j)))
        /\ Len(vertices) = SumSizes(MeshBlocks)

\* A shared block of N vertices, then two submeshes with blocks of M1 and M2
\* vertices of their own and a face each: the second resolves with N + M1.
C1_Witness ==
    /\ Len(submeshes) = 2
    /\ root.sharedgeometry # NoElem
    /\ HasLocalBlock(1) /\ HasLocalBlock(2)
    /\ BlockSize(root.sharedgeometry[1]) = 1
    /\ BlockSize(root.submeshes[1].geometry[1]) = 2
    /\ BlockSize(root.submeshes[2].geometry[1]) = 1
    /\ Len(submeshes[1].faces) = 1 /\ Len(submeshes[2].faces) = 1
    /\ submeshes[1].faces[1][1] = root.submeshes[1].faces[1][1][1] + 1 + 1
    /\ submeshes[2].faces[1][1] = root.submeshes[2].faces[1][1][1] + 3 + 1
    /\ Len(vertices) = 4

\* C2: a submesh that uses the shared vertices has its face indices moved by
\* one only, wherever it stands; it adds nothing to the global sequences; and
\* the shared block lies at the start of the global vertex sequence.
C2_SharedOffset ==
    Parsed =>
        /\ \A j \in 1..Len(submeshes) :
              root.submeshes[j].usesharedvertices =>
                 submeshes[j].faces = ShiftedFaces(j, 0)
        /\ Len(vertices) = SumSizes(MeshBlocks)
        /\ Len(normals) = SumSizes(WithNormals(MeshBlocks))
        /\ Len(uvs) = SumSizes(WithUvs(MeshBlocks))
        /\ root.sharedgeometry # NoElem =>
              \A k \in 1..BlockSize(root.sharedgeometry[1]) :
                 vertices[k] =
                    root.sharedgeometry[1].vertexbuffer[1].vertex[k].position

\* A submesh with a block of its own, then one that uses the shared vertices,
\* carries a stray block and has a face.
C2_Witness ==
    /\ Len(submeshes) = 2
    /\ root.sharedgeometry # NoElem
    /\ BlockSize(root.sharedgeometry[1]) = 2
    /\ HasLocalBlock(1)
    /\ BlockSize(root.submeshes[1].geometry[1]) = 1
    /\ root.submeshes[2].usesharedvertices
    /\ root.submeshes[2].geometry # NoElem
    /\ root.submeshes[2].faces = <<(<<(<<1, 2, 3>>)>>)>>
    /\ submeshes[2].faces = <<(<<2, 3, 4>>)>>
    /\ Len(vertices) = 3

\* The block that SpecGeom merges, its fragments and its vertex count.
TheBlock == root.sharedgeometry[1]

Fragments == TheBlock.vertexbuffer

\* The fragments that declare attribute attr and carry it for vertex i.
Declares(vb, attr) ==
    CASE attr = "position" -> vb.positions
      [] attr = "normal"   -> vb.normals
      [] attr = "texcoord" -> vb.texture_coords > 0

Suppliers(attr, i) ==
    {f \in 1..Len(Fragments) :
        /\ Declares(Fragments[f], attr)
        /\ i <= Len(Fragments[f].vertex)
        /\ Fragments[f].vertex[i][attr] # NoElem}

\* C3: a merged block contributes as many positions as its vertex count, and
\* of normals, and of uvs, either none or as many as its vertex count.
C3_AllOrNothing ==
    Parsed =>
        /\ Len(vertices) = VertexCount(TheBlock)
        /\ Len(normals) \in {0, VertexCount(TheBlock)}
        /\ Len(uvs) \in {0, VertexCount(TheBlock)}

\* Two vertices of which the fragments supply a normal and a uv for the first
\* only: the block contributes two normals and two uvs.
C3_Witness ==
    /\ Parsed
    /\ VertexCount(TheBlock) = 2
    /\ Suppliers("normal", 1) # {} /\ Suppliers("normal", 2) = {}
    /\ Suppliers("texcoord", 1) # {} /\ Suppliers("texcoord", 2) = {}
    /\ Len(normals) = 2 /\ normals[2] = <<0, 1, 0>>
    /\ Len(uvs) = 2 /\ uvs[2] = <<0, 0>>

\* C4: the merged position, normal and uv of vertex i are those of the last
\* fragment, in declaration order, that declares the attribute and carries
\* it for vertex i; fragments that do not declare it do not count.
C4_LastDeclaredWins ==
    Parsed =>
        \A i \in 1..VertexCount(TheBlock) :
           /\ Suppliers("position", i) # {} =>
                 vertices[i] =
                    Fragments[Max(Suppliers("position", i))].vertex[i].position
           /\ Suppliers("normal", i) # {} =>
                 normals[i] =
                    Fragments[Max(Suppliers("normal", i))].vertex[i].normal
           /\ Suppliers("texcoord", i) # {} =>
                 LET t == Fragments[Max(Suppliers("texcoord", i))]
                             .vertex[i].texcoord
                 IN uvs[i] = <<t[1], 1 - t[2]>>

\* Two fragments carry everything for vertex 0; both declare normals, only
\* the first declares texture coordinates.
C4_Witness ==
    /\ Parsed
    /\ VertexCount(TheBlock) >= 1
    /\ Suppliers("normal", 1) = {1, 2}
    /\ normals[1] = Fragments[2].vertex[1].normal
    /\ normals[1] # Fragments[1].vertex[1].normal
    /\ Suppliers("texcoord", 1) = {1}
    /\ Fragments[2].vertex[1].texcoord # NoElem
    /\ uvs[1] = <<Fragments[1].vertex[1].texcoord[1],
                  1 - Fragments[1].vertex[1].texcoord[2]>>

\* The f lines of the file, all groups together.
FaceLines ==
    UNION {{obj.groups[s].f[k] : k \in 1..Len(obj.groups[s].f)} :
              s \in 1..Len(obj.groups)}

NoNormalRefs == \A line \in FaceLines : \A c \in 1..3 : line[c].vn = NoElem

\* The blocks of the mesh, as a set of positions in MeshBlocks.
BlockIds == 1..Len(MeshBlocks)

ContributesNormals(b) ==
    BlockSize(MeshBlocks[b]) > 0 /\ MeshBlocks[b].vertexbuffer[1].normals

\* C5 as claimed: when one block contributes no normals and another does,
\* normals are not available and no face line refers to a normal.
C5_AnyBlockWithoutNormals ==
    pc = "done" =>
        ((\E b \in BlockIds : ~ContributesNormals(b)) /\
         (\E b \in BlockIds : ContributesNormals(b))
            => ~obj.have_normals /\ NoNormalRefs)

\* C5, amended: when one block that has a vertex contributes no normals and
\* another block does, normals are not available and no face line of any
\* submesh refers to a normal.
C5_NormalsDisabledMeshWide ==
    pc = "done" =>
        ((\E b \in BlockIds :
             BlockSize(MeshBlocks[b]) > 0 /\ ~ContributesNormals(b)) /\
         (\E b \in BlockIds : ContributesNormals(b))
            => ~obj.have_normals /\ NoNormalRefs)

\* The shared block has a vertex and no normals; the first submesh has a
\* block of its own with normals and a face, which is written without them.
C5_Witness ==
    /\ pc = "done"
    /\ root.sharedgeometry # NoElem
    /\ BlockSize(root.sharedgeometry[1]) > 0
    /\ ~root.sharedgeometry[1].vertexbuffer[1].normals
    /\ Len(root.submeshes) >= 1
    /\ HasLocalBlock(1)
    /\ BlockSize(root.submeshes[1].geometry[1]) > 0
    /\ root.submeshes[1].geometry[1].vertexbuffer[1].normals
    /\ Len(obj.groups[1].f) = 1
    /\ \A c \in 1..3 : obj.groups[1].f[1][c].vn = NoElem
    /\ Len(normals) > 0

\* C6: normals, resp. uvs, are available exactly when their global sequence
\* is non-empty and as long as the global vertex sequence, and every corner
\* of every face line carries a uv index exactly when uvs are available and
\* a normal index exactly when normals are available.
C6_FaceForm ==
    pc = "done" =>
        /\ obj.have_normals <=>
              (Len(normals) = Len(vertices) /\ Len(normals) > 0)
        /\ obj.have_uvs <=> (Len(uvs) = Len(vertices) /\ Len(uvs) > 0)
        /\ \A line \in FaceLines : \A c \in 1..3 :
              /\ line[c].vt # NoElem <=> obj.have_uvs
              /\ line[c].vn # NoElem <=> obj.have_normals
              /\ line[c].vt # NoElem => line[c].vt = <<line[c].v>>
              /\ line[c].vn # NoElem => line[c].vn = <<line[c].v>>

\* Two submeshes with a face each in a mesh that has uvs throughout and
\* normals in one block only: both faces are written as v/vt.
C6_Witness ==
    /\ pc = "done"
    /\ Len(obj.groups) = 2
    /\ Len(obj.groups[1].f) = 1 /\ Len(obj.groups[2].f) = 1
    /\ obj.have_uvs /\ ~obj.have_normals
    /\ Len(normals) > 0
    /\ \A s \in 1..2 : \A c \in 1..3 :
          obj.groups[s].f[1][c].vt # NoElem /\ obj.groups[s].f[1][c].vn = NoElem

\* C10 as claimed: every face line refers to vertices of the file.
C10_FaceIndicesInRange ==
    pc = "done" =>
        \A line \in FaceLines : \A c \in 1..3 :
           line[c].v \in 1..Len(vertices)

(***************************************************************************)
(* What the tree says about its faces, for the properties of the           *)
(* recalculation                                                           *)
(***************************************************************************)
\* The faces of submesh j whose three indices lie in 0..n-1.
InRangeFaces(j, n) ==
    IF root.submeshes[j].faces = NoElem THEN <<>>
    ELSE SelectSeq(root.submeshes[j].faces[1],
                   LAMBDA face : \A c \in 1..3 : face[c] \in 0..(n - 1))

\* The number of faces of a list that touch vertex i (counted from 1), and
\* the sum of their face normals over the positions pos.
RECURSIVE Touching(_, _)
Touching(faces, i) ==
    IF faces = <<>> THEN 0
    ELSE (IF \E c \in 1..3 : Head(faces)[c] + 1 = i THEN 1 ELSE 0)
         + Touching(Tail(faces), i)

RECURSIVE NormalSum(_, _, _)
NormalSum(faces, i, pos) ==
    IF faces = <<>> THEN <<0, 0, 0>>
    ELSE VAdd(IF \E c \in 1..3 : Head(faces)[c] + 1 = i
              THEN calculate_face_normal(pos[Head(faces)[1] + 1],
                                         pos[Head(faces)[2] + 1],
                                         pos[Head(faces)[3] + 1])
              ELSE <<0, 0, 0>>,
              NormalSum(Tail(faces), i, pos))

\* The shared block as read from the file, and whether the pass works on it:
\* it declares normals, has vertices, and a submesh with a faces element
\* uses it.
SharedVertices == root.sharedgeometry[1].vertexbuffer[1].vertex

SharedUsers ==
    {j \in 1..Len(root.submeshes) :
        root.submeshes[j].usesharedvertices /\ root.submeshes[j].faces # NoElem}

SharedProcessed ==
    /\ root.sharedgeometry # NoElem
    /\ root.sharedgeometry[1].vertexbuffer # <<>>
    /\ root.sharedgeometry[1].vertexbuffer[1].normals
    /\ Len(SharedVertices) > 0
    /\ SharedUsers # {}

\* The in-range faces of all submeshes that use the shared block.
RECURSIVE SharedFacesUpTo(_)
SharedFacesUpTo(j) ==
    IF j = 0 THEN <<>>
    ELSE SharedFacesUpTo(j - 1) \o
         (IF j \in SharedUsers THEN InRangeFaces(j, Len(SharedVertices))
          ELSE <<>>)

SharedFaces == SharedFacesUpTo(Len(root.submeshes))

\* No face of a submesh on the shared block has a negative index (faces with
\* negative indices are the matter of C9).
NoNegativeIndex ==
    \A j \in SharedUsers :
       \A f \in 1..Len(root.submeshes[j].faces[1]) :
          \A c \in 1..3 : root.submeshes[j].faces[1][f][c] >= 0

WrittenShared == written[1].sharedgeometry[1].vertexbuffer[1].vertex

\* C7 as claimed: in the written tree every vertex of the shared block that
\* a valid face of some submesh touches holds the normalized average of the
\* face normals of all valid faces, of all submeshes, that touch it (here
\* for trees without negative face indices).
C7_AverageOfAllTouchingFaces ==
    (pc = "saved" /\ SharedProcessed /\ NoNegativeIndex) =>
        \A i \in 1..Len(SharedVertices) :
           Touching(SharedFaces, i) > 0 =>
              WrittenShared[i].normal =
                 FinalNormal(NormalSum(SharedFaces, i, Positions(
                                root.sharedgeometry[1].vertexbuffer[1])),
                             Touching(SharedFaces, i))

\* C8 as claimed: in the written tree every vertex of the shared block that
\* no valid face touches has the normal (0, 1, 0), with or without a normal
\* element before, and the reported count of a turn leaves such vertices out
\* (here for trees without negative face indices).
C8_UntouchedGetDefault ==
    /\ (pc = "saved" /\ SharedProcessed /\ NoNegativeIndex) =>
          \A i \in 1..Len(SharedVertices) :
             Touching(SharedFaces, i) = 0 =>
                WrittenShared[i].normal = <<0, Scale, 0>>
    /\ (last.processed /\ root.submeshes[Len(root.submeshes)].usesharedvertices
           /\ NoNegativeIndex)
          => last.updated_normals =
                Cardinality({i \in 1..Len(SharedVertices) :
                    Touching(InRangeFaces(Len(root.submeshes),
                                          Len(SharedVertices)), i) > 0})

\* C9 as claimed: a face with an index outside 0..vertex_count-1 adds nothing
\* to any vertex, every other face of the submesh is accumulated, and the
\* pass goes on: it never fails, and after a turn on the shared block the
\* face count of each vertex is the number of in-range faces that touch it.
C9_OutOfRangeFaceSkipped ==
    /\ pc # "failed"
    /\ (last.processed /\ root.submeshes[Len(root.submeshes)].usesharedvertices)
          => \A i \in 1..Len(SharedVertices) :
                /\ last.vertex_face_count[i] =
                      Touching(InRangeFaces(Len(root.submeshes),
                                            Len(SharedVertices)), i)
                /\ last.vertex_normals[i] =
                      NormalSum(InRangeFaces(Len(root.submeshes),
                                             Len(SharedVertices)), i,
                                Positions(root.sharedgeometry[1].vertexbuffer[1]))

(***************************************************************************)
(* What the recalculation leaves alone                                     *)
(***************************************************************************)
\* A tree without the normal elements of its vertices.
StripBlock(geom) ==
    [geom EXCEPT !.vertexbuffer =
        [f \in 1..Len(geom.vertexbuffer) |->
            [geom.vertexbuffer[f] EXCEPT !.vertex =
                [k \in 1..Len(geom.vertexbuffer[f].vertex) |->
                    [geom.vertexbuffer[f].vertex[k] EXCEPT !.normal = NoElem]]]]]

StripElem(g) == IF g = NoElem THEN NoElem ELSE <<StripBlock(g[1])>>

StripTree(t) ==
    [sharedgeometry |-> StripElem(t.sharedgeometry),
     submeshes |-> [j \in 1..Len(t.submeshes) |->
                      [t.submeshes[j] EXCEPT !.geometry = StripElem(@)]]]

\* The tree in memory differs from the tree read in normal elements only,
\* and the file, once written, holds the tree in memory.
OnlyNormalsChange ==
    /\ StripTree(tree) = StripTree(root)
    /\ written # <<>> => written[1] = tree

\* The submeshes whose turn ends early.
SkippedSubmeshes == {j \in 1..Len(root.submeshes) : Skips(root, j)}

\* C11 as claimed: the pass changes normal elements only, and the block a
\* skipped submesh resolves to is the same before and after.
C11_SkippedBlocksUnchanged ==
    pc \in {"recalc", "saved", "failed"} =>
        /\ OnlyNormalsChange
        /\ \A j \in SkippedSubmeshes :
              ResolveGeometry(tree, j) = ResolveGeometry(root, j)

\* C11, amended: the pass changes normal elements only; the own block of a
\* skipped submesh is the same before and after, and so is the shared block
\* when every submesh that uses the shared vertices is skipped.
C11_OnlyNormalsChange ==
    pc \in {"recalc", "saved", "failed"} =>
        /\ OnlyNormalsChange
        /\ \A j \in SkippedSubmeshes :
              ~root.submeshes[j].usesharedvertices =>
                 tree.submeshes[j].geometry = root.submeshes[j].geometry
        /\ (\A j \in 1..Len(root.submeshes) :
               root.submeshes[j].usesharedvertices => j \in SkippedSubmeshes)
              => tree.sharedgeometry = root.sharedgeometry

\* A written tree with new normals in the shared block, after a submesh that
\* was processed and a submesh with a block of its own that was skipped.
C11_Witness ==
    /\ pc = "saved"
    /\ Len(root.submeshes) = 2
    /\ 1 \notin SkippedSubmeshes
    /\ root.submeshes[1].usesharedvertices
    /\ 2 \in SkippedSubmeshes
    /\ root.submeshes[2].geometry # NoElem
    /\ written[1].sharedgeometry # root.sharedgeometry
    /\ written[1].submeshes[2].geometry = root.submeshes[2].geometry

(***************************************************************************)
(* MeshToObj.py, batch mode: main's loop over the XML files                *)
(***************************************************************************)
\* A face element without its v1 attribute: int(None) raises TypeError.
BadFace == NoElem

\* The submesh elements of the files of a batch: one on the shared vertices,
\* one with a block of its own, and one whose face list holds a bad face.
BatchSubmeshes ==
    {[usesharedvertices |-> TRUE, geometry |-> NoElem,
      faces |-> <<FaceList(0)>>],
     [usesharedvertices |-> FALSE,
      geometry |-> <<MeshGeometry(1, MaxBlockVerts, TRUE, FALSE)>>,
      faces |-> <<FaceList(0)>>],
     [usesharedvertices |-> FALSE,
      geometry |-> <<MeshGeometry(1, 1, TRUE, TRUE)>>,
      faces |-> <<FaceList(0) \o <<BadFace>> >>]}

\* The files of xml_files, whose names end in .xml as batch_convert returns
\* them: one that ET.parse rejects, and trees of at most one submesh.
XmlFiles ==
    {[parses |-> FALSE, tree |-> NoTree]} \cup
    [parses : {TRUE},
     tree : [sharedgeometry : {NoElem, <<MeshGeometry(0, 1, TRUE, TRUE)>>},
             submeshes : {<<>>} \cup {<<s>> : s \in BatchSubmeshes}]]

\* One converter object serves every file of the batch.
SameConverter(c) == c

\* converter = OgreXMLToOBJ(): the fields of the object the name is bound to,
\* c being the fields of the object it was bound to before.
NewConverter(c) ==
    [vertices |-> <<>>, normals |-> <<>>, uvs |-> <<>>, submeshes |-> <<>>]

FaceRaises(submesh_elem) ==
    /\ submesh_elem.faces # NoElem
    /\ \E f \in 1..Len(submesh_elem.faces[1]) :
          submesh_elem.faces[1][f] = BadFace

\* _parse_submesh on converter c: the geometry is merged before the faces
\* are read, and the submesh is appended after them.
ParseSubmeshElem(c, submesh_elem, submesh_idx) ==
    LET vertex_offset == VertexOffset(submesh_elem.usesharedvertices,
                                      Len(c.vertices))
        g == IF ParsesLocalGeometry(submesh_elem)
             THEN ParseGeometry(submesh_elem.geometry[1],
                                c.vertices, c.normals, c.uvs)
             ELSE [vertices |-> c.vertices, normals |-> c.normals,
                   uvs |-> c.uvs]
        merged == [c EXCEPT !.vertices = g.vertices, !.normals = g.normals,
                            !.uvs = g.uvs]
    IN IF FaceRaises(submesh_elem)
       THEN [conv |-> merged, raised |-> TRUE]
       ELSE [conv |-> [merged EXCEPT !.submeshes =
                         Append(@, [material |-> submesh_idx,
                                    faces |-> LocalFaces(submesh_elem,
                                                         vertex_offset),
                                    index |-> submesh_idx])],
             raised |-> FALSE]

RECURSIVE ParseSubmeshElems(_, _, _)
ParseSubmeshElems(c, elems, submesh_idx) ==
    IF elems = <<>> THEN [conv |-> c, raised |-> FALSE]
    ELSE LET r == ParseSubmeshElem(c, Head(elems), submesh_idx)
         IN IF r.raised THEN r
            ELSE ParseSubmeshElems(r.conv, Tail(elems), submesh_idx + 1)

\* parse_mesh_xml on converter c.
ParseMeshXml(c, xml_file) ==
    IF ~xml_file.parses THEN [conv |-> c, raised |-> TRUE]
    ELSE LET t == xml_file.tree
             g == IF t.sharedgeometry = NoElem
                  THEN [vertices |-> c.vertices, normals |-> c.normals,
                        uvs |-> c.uvs]
                  ELSE ParseGeometry(t.sharedgeometry[1],
                                     c.vertices, c.normals, c.uvs)
         IN ParseSubmeshElems([c EXCEPT !.vertices = g.vertices,
                                        !.normals = g.normals,
                                        !.uvs = g.uvs],
                              t.submeshes, 0)

\* The MTL file, one material per submesh, and the OBJ file.
WrittenFiles(c, mtl) ==
    [mtl |-> IF mtl /\ c.submeshes # <<>>
             THEN <<[s \in 1..Len(c.submeshes) |-> c.submeshes[s].material]>>
             ELSE NoElem,
     obj |-> ObjFile(c.vertices, c.normals, c.uvs, c.submeshes)]

\* The files are written whether parse_mesh_xml raised or not.
ConvertAlwaysWrites(c, xml_file, mtl) ==
    LET p == ParseMeshXml(c, xml_file)
    IN [conv |-> p.conv, raised |-> p.raised,
        files |-> <<WrittenFiles(p.conv, mtl)>>]

\* convert: parse_mesh_xml, then write_mtl and write_obj.
Convert(c, xml_file, mtl) ==
    LET p == ParseMeshXml(c, xml_file)
    IN [conv |-> p.conv, raised |-> p.raised,
        files |-> IF p.raised THEN NoElem
                  ELSE <<WrittenFiles(p.conv, mtl)>>]

InitBatch ==
    /\ pc = "batch"
    /\ root = NoTree
    /\ ExportIdle
    /\ RecalcIdle
    /\ create_mtl \in BOOLEAN
    /\ xml_files = <<>> /\ outputs = <<>> /\ errors = <<>>
    /\ mesh_files = <<>> /\ attempts = <<>>

\* One turn of the loop: a new converter, convert, and the handler that
\* prints the error of a file that raised.
BatchConvert ==
    /\ pc = "batch"
    /\ Len(xml_files) < MaxFiles
    /\ \E xml_file \in XmlFiles :
         \E r \in {Convert(NewConverter([vertices |-> vertices,
                                         normals |-> normals, uvs |-> uvs,
                                         submeshes |-> submeshes]),
                           xml_file, create_mtl)} :
            /\ xml_files' = Append(xml_files, xml_file)
            /\ vertices' = r.conv.vertices
            /\ normals' = r.conv.normals
            /\ uvs' = r.conv.uvs
            /\ submeshes' = r.conv.submeshes
            /\ outputs' = Append(outputs, r.files)
            /\ errors' = Append(errors, r.raised)
    /\ UNCHANGED <<pc, root, obj, recalcVars, create_mtl, mesh_files, attempts>>

NextBatch == BatchConvert

SpecBatch == InitBatch /\ [][NextBatch]_vars

\* A file converts: it is XML and none of its faces lacks an index.
WellFormed(xml_file) ==
    /\ xml_file.parses
    /\ \A j \in 1..Len(xml_file.tree.submeshes) :
          ~FaceRaises(xml_file.tree.submeshes[j])

\* What converting a file alone writes, from empty sequences.
Alone(xml_file) ==
    Convert([vertices |-> <<>>, normals |-> <<>>, uvs |-> <<>>,
             submeshes |-> <<>>], xml_file, create_mtl).files

\* C12: in a batch every well-formed file gets the files that converting it
\* alone writes, an error is printed for exactly the files that fail, and
\* every file of the batch is taken, whatever happened to those before it.
C12_BatchIsolation ==
    pc = "batch" =>
        /\ Len(outputs) = Len(xml_files) /\ Len(errors) = Len(xml_files)
        /\ \A i \in 1..Len(xml_files) :
              /\ WellFormed(xml_files[i]) =>
                    outputs[i] # NoElem /\ outputs[i] = Alone(xml_files[i])
              /\ errors[i] <=> ~WellFormed(xml_files[i])
        /\ Len(xml_files) < MaxFiles => ENABLED BatchConvert

\* Three files of which the second fails after its block was merged: the
\* third is written with the vertices of its own tree only.
C12_Witness ==
    /\ pc = "batch"
    /\ Len(xml_files) = 3
    /\ errors = <<FALSE, TRUE, FALSE>>
    /\ xml_files[2].parses
    /\ Len(outputs[1][1].obj.v) = 1
    /\ outputs[2] = NoElem
    /\ Len(outputs[3][1].obj.v) = 1 + MaxBlockVerts
    /\ Len(outputs[3][1].obj.groups) = 1

(***************************************************************************)
(* Failures of either program                                              *)
(***************************************************************************)
\* recalculate_normals on a file that ET.parse rejects: the handler of
\* ParseError returns False.
InitUnparsable ==
    /\ pc = "failed"
    /\ root = NoTree
    /\ RecalcIdle
    /\ ExportIdle
    /\ DriversIdle

InitFailure == InitBatch \/ InitRecalc \/ InitUnparsable

NextFailure == NextBatch \/ NextRecalc

\* A batch of conversions, or one recalculation pass.
SpecFailure == InitFailure /\ [][NextFailure]_vars

\* C13: a file whose conversion raised while it was parsed has neither an
\* OBJ nor an MTL file written; a recalculation that failed has written
\* nothing, and the tree is written only by the step that ends the pass
\* after its last submesh.
C13_NoOutputOnFailure ==
    /\ pc = "batch" =>
          \A i \in 1..Len(xml_files) : errors[i] => outputs[i] = NoElem
    /\ pc = "failed" => written = <<>>
    /\ written # <<>> => pc = "saved" /\ written = <<tree>>

\* A file of a batch that raised on a face after its block was merged into
\* the converter: nothing was written for it.
C13_Witness ==
    /\ pc = "batch"
    /\ Len(xml_files) = 2
    /\ outputs[1] # NoElem
    /\ errors[2] /\ xml_files[2].parses
    /\ Len(vertices) > 0
    /\ outputs[2] = NoElem

(***************************************************************************)
(* The turns that are skipped for lack of normals                          *)
(***************************************************************************)
\* The block that the submesh of the turn just taken resolves to.
TurnBlock == ResolveGeometry(root, Len(root.submeshes))

DeclaresNormals(geom) ==
    \E f \in 1..Len(geom.vertexbuffer) : geom.vertexbuffer[f].normals

\* The block of the turn has vertex records, and its submesh a faces element.
HasPositionsAndFaces ==
    /\ TurnBlock # NoElem
    /\ TurnBlock[1].vertexbuffer # <<>>
    /\ Len(TurnBlock[1].vertexbuffer[1].vertex) > 0
    /\ root.submeshes[Len(root.submeshes)].faces # NoElem

\* C14 as claimed: a turn whose block has positions and faces is skipped
\* exactly when no vertex buffer of the block declares normals, and then the
\* pass goes on; otherwise the normals of the block are recalculated.
C14_SkipOnlyWithoutNormals ==
    (pc = "recalc" /\ Len(root.submeshes) > 0 /\ HasPositionsAndFaces) =>
        /\ ~last.processed <=> ~DeclaresNormals(TurnBlock[1])
        /\ Len(root.submeshes) < MaxRSubmeshes => ENABLED RecalcSubmesh
        /\ ENABLED SaveTree

\* C15: a block contributes as many vertices as its vertexcount attribute
\* says, or without the attribute as many as its first fragment has vertex
\* records, or without attribute and fragment none at all; in that last case
\* the global sequences stay empty; and a record at or beyond the vertex
\* count supplies nothing: a block contributes normals, resp. uvs, only if a
\* record below the vertex count supplies one.
C15_VertexCount ==
    Parsed =>
        LET count == IF TheBlock.vertexcount # NoElem
                     THEN TheBlock.vertexcount[1]
                     ELSE IF Len(Fragments) > 0 THEN Len(Fragments[1].vertex)
                     ELSE 0
        IN /\ Len(vertices) = count
           /\ (TheBlock.vertexcount = NoElem /\ Len(Fragments) = 0) =>
                 vertices = <<>> /\ normals = <<>> /\ uvs = <<>>
           /\ normals # <<>> =>
                 \E i \in 1..count : Suppliers("normal", i) # {}
           /\ uvs # <<>> =>
                 \E i \in 1..count : Suppliers("texcoord", i) # {}
           /\ \A i \in 1..count :
                 Suppliers("position", i) = {} => vertices[i] = <<0, 0, 0>>

\* A count of one and a fragment of two records, of which only the second
\* carries a normal: one vertex and no normals.
C15_Witness ==
    /\ Parsed
    /\ TheBlock.vertexcount = <<1>>
    /\ Len(Fragments) >= 1
    /\ Len(Fragments[1].vertex) = 2
    /\ Fragments[1].normals
    /\ Fragments[1].vertex[1].normal = NoElem
    /\ Fragments[1].vertex[2].normal # NoElem
    /\ \A f \in 2..Len(Fragments) : ~Fragments[f].normals
    /\ Len(vertices) = 1
    /\ normals = <<>>

(***************************************************************************)
(* Faces without area                                                      *)
(***************************************************************************)
\* The positions of the shared block, and the faces of the submesh of the
\* turn just taken.
SharedPositions ==
    [i \in 1..Len(SharedVertices) |-> SharedVertices[i].position]

TurnFaces == root.submeshes[Len(root.submeshes)].faces[1]

\* The three corners of a face lie on one line or coincide.
Degenerate(p1, p2, p3) ==
    \E m, d \in (0 - MaxRVerts)..MaxRVerts :
       /\ <<m, d>> # <<0, 0>>
       /\ \A c \in 1..3 : m * (p2[c] - p1[c]) = d * (p3[c] - p1[c])

\* The turn just taken worked on the shared block, and every face of its
\* submesh has its three indices in the block.
TurnOnSharedInRange ==
    /\ last.processed
    /\ root.submeshes[Len(root.submeshes)].usesharedvertices
    /\ \A f \in 1..Len(TurnFaces) :
          \A c \in 1..3 : TurnFaces[f][c] \in 0..(Len(SharedVertices) - 1)

\* The faces of the turn that touch vertex i, and those of them without area.
FacesAt(i) ==
    {f \in 1..Len(TurnFaces) : \E c \in 1..3 : TurnFaces[f][c] + 1 = i}

DegenerateAt(i) ==
    {f \in FacesAt(i) :
        Degenerate(SharedPositions[TurnFaces[f][1] + 1],
                   SharedPositions[TurnFaces[f][2] + 1],
                   SharedPositions[TurnFaces[f][3] + 1])}

\* C16: the face normal of three corners on one line is (0, 0, 1); such a
\* face counts for each of its vertices like any other, and a vertex that
\* only such faces touch has accumulated (0, 0, 1) once per face.
C16_DegenerateFallback ==
    /\ (pc = "recalc" /\ root.submeshes = <<>>
           /\ root.sharedgeometry # NoElem
           /\ root.sharedgeometry[1].vertexbuffer # <<>>) =>
          \A i, j, k \in 1..Len(SharedVertices) :
             Degenerate(SharedPositions[i], SharedPositions[j],
                        SharedPositions[k]) =>
                calculate_face_normal(SharedPositions[i], SharedPositions[j],
                                      SharedPositions[k]) = <<0, 0, Scale>>
    /\ TurnOnSharedInRange =>
          \A i \in 1..Len(SharedVertices) :
             /\ last.vertex_face_count[i] = Cardinality(FacesAt(i))
             /\ DegenerateAt(i) = FacesAt(i) =>
                   last.vertex_normals[i] =
                      <<0, 0, Scale * Cardinality(FacesAt(i))>>

\* A face on the line and a face with area: the vertex that only the first
\* touches holds (0, 0, 1), counted once.
C16_Witness ==
    /\ TurnOnSharedInRange
    /\ Len(TurnFaces) = 2
    /\ DegenerateAt(1) = {1}
    /\ FacesAt(2) = {1, 2} /\ DegenerateAt(2) = {1}
    /\ last.vertex_face_count[1] = 1
    /\ last.vertex_normals[1] = <<0, 0, Scale>>
    /\ last.vertex_face_count[2] = 2

(***************************************************************************)
(* batch_ogre_to_gltf.py: main's loop over the .mesh files                 *)
(***************************************************************************)
\* A file of the walk: one whose name does not end in .mesh, or a .mesh file
\* with what the importer and the exporter do for it: the import raises,
\* brings no object or brings objects; with objects, the export with
\* animations succeeds or raises, and so does then the export without
\* animations.
MeshFiles ==
    {[import |-> "not .mesh", with_animations |-> "unused",
      without_animations |-> "unused"],
     [import |-> "raises", with_animations |-> "unused",
      without_animations |-> "unused"],
     [import |-> "nothing", with_animations |-> "unused",
      without_animations |-> "unused"],
     [import |-> "objects", with_animations |-> "ok",
      without_animations |-> "unused"],
     [import |-> "objects", with_animations |-> "raises",
      without_animations |-> "ok"],
     [import |-> "objects", with_animations |-> "raises",
      without_animations |-> "raises"]}

\* export_gltf_for_objects: the exports tried in turn and the GLB written.
ExportGltfForObjects(mesh_file) ==
    IF mesh_file.import = "nothing"
    THEN [exports |-> <<>>, glb |-> "none"]
    ELSE IF mesh_file.with_animations = "ok"
    THEN [exports |-> <<"with">>, glb |-> "with"]
    ELSE IF mesh_file.without_animations = "ok"
    THEN [exports |-> <<"with", "without">>, glb |-> "without"]
    ELSE [exports |-> <<"with", "without">>, glb |-> "none"]

\* The import stands inside the try statement of the loop.
AfterImportRaisedCaught == "gltf"

\* Where main stands after import_ogre_mesh raised: the call stands before
\* the try statement, so the exception leaves the loop and main.
AfterImportRaised == "aborted"

InitGltf ==
    /\ pc = "gltf"
    /\ root = NoTree
    /\ ExportIdle
    /\ RecalcIdle
    /\ DriversIdle

\* One turn of the loop: a file that is no .mesh file is passed over; for a
\* .mesh file the scene is reset, the file is imported and the imported
\* objects are exported.
GltfFile ==
    /\ pc = "gltf"
    /\ Len(mesh_files) < MaxMeshFiles
    /\ \E mesh_file \in MeshFiles :
         /\ mesh_files' = Append(mesh_files, mesh_file)
         /\ IF mesh_file.import = "not .mesh"
            THEN /\ attempts' = Append(attempts,
                       [imported |-> FALSE, exports |-> <<>>, glb |-> "none"])
                 /\ UNCHANGED pc
            ELSE IF mesh_file.import = "raises"
            THEN /\ attempts' = Append(attempts,
                       [imported |-> FALSE, exports |-> <<>>, glb |-> "none"])
                 /\ pc' = AfterImportRaised
            ELSE /\ attempts' = Append(attempts,
                       [imported |-> TRUE,
                        exports |-> ExportGltfForObjects(mesh_file).exports,
                        glb |-> ExportGltfForObjects(mesh_file).glb])
                 /\ UNCHANGED pc
    /\ UNCHANGED <<root, exportVars, recalcVars, create_mtl, xml_files,
                   outputs, errors>>

NextGltf == GltfFile

SpecGltf == InitGltf /\ [][NextGltf]_vars

\* C17 as claimed: no failure of an import or of an export ends the batch,
\* so that every .mesh file of the walk is imported and, when the import
\* brought objects, exported, with animations first and without them only
\* after that export failed; a failure of both is swallowed.
C17_BatchGoesOn ==
    /\ pc = "gltf"
    /\ Len(mesh_files) < MaxMeshFiles => ENABLED GltfFile
    /\ \A i \in 1..Len(mesh_files) :
          /\ mesh_files[i].import \in {"nothing", "objects"} =>
                attempts[i].imported
          /\ mesh_files[i].import = "objects" => attempts[i].exports # <<>>
          /\ attempts[i].exports # <<>> => attempts[i].exports[1] = "with"
          /\ Len(attempts[i].exports) = 2 <=>
                (mesh_files[i].import = "objects"
                   /\ mesh_files[i].with_animations = "raises")
          /\ attempts[i].glb = "without" =>
                mesh_files[i].with_animations = "raises"

(***************************************************************************)
(* The pairing of vertices with their normals and uvs                      *)
(***************************************************************************)
\* The vertex record of the tree that global vertex i (counted from 1) was
\* merged from.
RECURSIVE RecordAt(_, _)
RecordAt(blocks, i) ==
    IF i <= BlockSize(Head(blocks))
    THEN Head(blocks).vertexbuffer[1].vertex[i]
    ELSE RecordAt(Tail(blocks), i - BlockSize(Head(blocks)))

OwnNormal(i) == RecordAt(MeshBlocks, i).normal

OwnUv(i) ==
    <<RecordAt(MeshBlocks, i).texcoord[1],
      1 - RecordAt(MeshBlocks, i).texcoord[2]>>

\* C18: the global normal and uv sequences are never longer than the global
\* vertex sequence; when one is as long and not empty, its entry i is what
\* was merged for global vertex i; and a face line that refers to a normal
\* or a uv of the file pairs the vertex with its own.
C18_AttributesAligned ==
    Parsed =>
        /\ Len(normals) <= Len(vertices)
        /\ Len(uvs) <= Len(vertices)
        /\ (Len(normals) = Len(vertices) /\ Len(normals) > 0) =>
              \A i \in 1..Len(vertices) : normals[i] = OwnNormal(i)
        /\ (Len(uvs) = Len(vertices) /\ Len(uvs) > 0) =>
              \A i \in 1..Len(vertices) : uvs[i] = OwnUv(i)
        /\ pc = "done" =>
              \A line \in FaceLines : \A c \in 1..3 :
                 line[c].v \in 1..Len(vertices) =>
                    /\ line[c].vn # NoElem =>
                          obj.vn[line[c].vn[1]] = OwnNormal(line[c].v)
                    /\ line[c].vt # NoElem =>
                          obj.vt[line[c].vt[1]] = OwnUv(line[c].v)

\* A shared block and a block of a submesh, both with normals and uvs, and
\* a face of that submesh written with both.
C18_Witness ==
    /\ pc = "done"
    /\ root.sharedgeometry # NoElem
    /\ BlockSize(root.sharedgeometry[1]) = 1
    /\ Len(root.submeshes) = 1
    /\ HasLocalBlock(1)
    /\ BlockSize(root.submeshes[1].geometry[1]) = 2
    /\ Len(normals) = 3 /\ Len(uvs) = 3
    /\ Len(obj.groups[1].f) = 1
    /\ obj.groups[1].f[1][1].v = 2
    /\ obj.groups[1].f[1][1].vn = <<2>>
    /\ obj.vn[2] = root.submeshes[1].geometry[1].vertexbuffer[1].vertex[1].normal

====
